---------------------------- MODULE Spec2Model ----------------------------
(***************************************************************************)
(* A model of the two pipelines of the repository:                         *)
(*   generate_kg.py  the schema-driven graph generator (Spec)              *)
(*   process_kg.py   the graph normalizer (SpecNorm)                       *)
(* Python strings are TLA+ strings; characters are read with SubSeq.       *)
(* A Python dict is a sequence of <<key, value>> pairs in insertion order. *)
(***************************************************************************)
EXTENDS Integers, Sequences, FiniteSets, TLC

VARIABLES
    \* ---- generate_kg.py: inputs and configuration
    schema_file,              \* the lines of the schema file
    instances_file,           \* [readable, obj]: the catalog file
    probability,              \* p, in units of 1/Resolution
    seed,                     \* <<>> is None, <<n>> is the integer n
    UNIQUE_SUBJECT_RELATIONS, \* the configuration list of generate_kg.py:15
    \* ---- generate_kg.py: the random module and the locals of generate_kg
    mt,                       \* the generator: [tape, pos]
    gpc,                      \* where generate_kg stands
    relations, instances_data, kg_data,
    rel,                      \* index of the relation being generated
    subjs, objs, edge_list,
    iter,                     \* iterations of the current loop already done
    output_file,              \* [written, obj]: the file at output_path
    history,                  \* the outcome of every finished run
    \* ---- process_kg.py: input and the locals of main
    input_file,               \* [readable, obj]: the graph file
    data,                     \* the loaded graph
    npc,                      \* where main stands
    node_type_map, edge_type_map, instance_map,
    node_type_instances, node_type_instances_labels,
    entry,                    \* index of the graph entry being scanned
    scanned,                  \* edges of that entry already scanned
    final_node_instances, final_node_instances_labels

gen_inputs == <<schema_file, instances_file, probability, seed,
                UNIQUE_SUBJECT_RELATIONS>>
gen_locals == <<relations, instances_data, kg_data, rel, subjs, objs,
                edge_list, iter>>
gen_vars == <<gen_inputs, mt, gpc, gen_locals, output_file, history>>
norm_tables == <<node_type_map, edge_type_map, instance_map,
                 node_type_instances, node_type_instances_labels>>
norm_vars == <<input_file, data, npc, norm_tables, entry, scanned,
               final_node_instances, final_node_instances_labels>>
vars == <<gen_vars, norm_vars>>

-----------------------------------------------------------------------------
(* Bounds of the model                                                     *)

\* random.random() takes the values 0/Resolution .. (Resolution-1)/Resolution
Resolution == 2
\* how many times generate_kg is run on the same inputs
MaxRuns == 2

-----------------------------------------------------------------------------
(* Python built-ins                                                        *)

Char(s, i) == SubSeq(s, i, i)

\* the characters str.strip() removes, among the code points below U+0100:
\* U+0009 to U+000D, U+001C to U+001F, U+0020, U+0085 and U+00A0.  A string
\* of the model holds no code point from U+0100 on, so that the whitespace
\* of Python beyond it (U+1680, U+2000 to U+200A, U+2028, U+2029, U+202F,
\* U+205F, U+3000) is outside the strings modelled.
Whitespace ==
    {"\t", "\n", "", "\f", "\r", "", "", "", "", " ", "", " "}

\* str.strip()
strip(s) ==
    LET keep == {i \in 1..Len(s) : Char(s, i) \notin Whitespace}
    IN  IF keep = {} THEN ""
        ELSE SubSeq(s, CHOOSE i \in keep : \A m \in keep : i <= m,
                       CHOOSE i \in keep : \A m \in keep : i >= m)

startswith(s, c) == Len(s) >= 1 /\ Char(s, 1) = c
endswith(s, c) == Len(s) >= 1 /\ Char(s, Len(s)) = c

\* str.split(sep) for a one-character separator
RECURSIVE split(_, _)
split(s, sep) ==
    LET at == {i \in 1..Len(s) : Char(s, i) = sep}
    IN  IF at = {} THEN <<s>>
        ELSE LET first == CHOOSE i \in at : \A m \in at : i <= m
             IN  <<SubSeq(s, 1, first - 1)>>
                 \o split(SubSeq(s, first + 1, Len(s)), sep)

\* [p.strip() for p in parts]
StripAll(parts) == [x \in 1..Len(parts) |-> strip(parts[x])]

\* dict operations, on insertion-ordered sequences of <<key, value>>
DictHas(d, key) == \E x \in 1..Len(d) : d[x][1] = key
DictGet(d, key) == d[CHOOSE x \in 1..Len(d) : d[x][1] = key][2]
DictSet(d, key, v) ==
    IF DictHas(d, key)
    THEN [x \in 1..Len(d) |-> IF d[x][1] = key THEN <<key, v>> ELSE d[x]]
    ELSE Append(d, <<key, v>>)
DictKeys(d) == {d[x][1] : x \in 1..Len(d)}

Range(seq) == {seq[x] : x \in 1..Len(seq)}

-----------------------------------------------------------------------------
(* generate_kg.py                                                          *)

SEED == 42

UNIQUE_OBJECT_RELATIONS ==
    { "(City,companyLocation,Company)",
      "(City,universityLocation,University)",
      "(State,stateOf,City)",
      "(University,hasCollege,College)",
      "(College,hasDepartment,Department)",
      "(Department,offersCourse,Course)",
      "(Degree,degreeMajor,Major)",
      "(Degree,degreeLevel,DegreeLevel)",
      "(Course,courseSubject,Subject)" }

\* the f-string "({a},{b},{c})" of a relation key and of an edge
FormatTriple(a, b, c) == "(" \o a \o "," \o b \o "," \o c \o ")"

\* one line of the schema file: the relation it adds, if any
SchemaLine(raw) ==
    LET line == strip(raw)
    IN  IF line = "" THEN <<>>
        ELSE IF startswith(line, "(") /\ endswith(line, ")")
        THEN LET parts == StripAll(split(SubSeq(line, 2, Len(line) - 1), ","))
             IN  IF Len(parts) = 3 THEN <<parts>> ELSE <<>>
        ELSE <<>>

RECURSIVE parse_schema(_)
parse_schema(lines) ==
    IF lines = <<>> THEN <<>>
    ELSE SchemaLine(Head(lines)) \o parse_schema(Tail(lines))

\* ---- the random module: a stream fixed by its seed. The tape holds the
\* values of the stream met so far; a value beyond the tape is not yet
\* determined and any value may come.
FreshEntropy == [tape |-> <<>>, pos |-> 0]

\* a run that does not seed: the generator goes on from where it stands
RandomSeedSkipped(m) == m

\* random.seed(seed): the stream of that seed, from its start
RandomSeed(m) == [m EXCEPT !.pos = 0]

\* the values the next draw may give, and the generator after it
NextRaw(m) ==
    IF m.pos < Len(m.tape) THEN {m.tape[m.pos + 1]} ELSE 0..(Resolution - 1)
Advance(m, raw) ==
    [tape |-> IF m.pos < Len(m.tape) THEN m.tape ELSE Append(m.tape, raw),
     pos |-> m.pos + 1]

\* random.random() < probability, on a raw value
Hit(raw, p) == raw < p
\* random.choice(seq), on a raw value (seq is not empty)
Choice(seq, raw) == seq[(raw % Len(seq)) + 1]

\* ---- the relation at hand
Key(r) == FormatTriple(r[1], r[2], r[3])
CurRel == relations[rel]
CurKey == Key(CurRel)

\* the unique-object list is not consulted
ModeWithoutUniqueObject(key, unique_subject) ==
    IF key \in unique_subject THEN "unique_subject" ELSE "many_to_many"

Mode(key, unique_subject) ==
    IF key \in UNIQUE_OBJECT_RELATIONS THEN "unique_object"
    ELSE IF key \in unique_subject THEN "unique_subject"
    ELSE "many_to_many"

\* the nested loops "for s in subjs: for o in objs", flattened: iteration
\* number x (from 1) of the len(subjs) * len(objs) iterations
PairSubject(ss, os, x) == ss[((x - 1) \div Len(os)) + 1]
PairObject(ss, os, x) == os[((x - 1) % Len(os)) + 1]


\* subject and object change places in the edge string
UniqueObjectEdgeSwapped(ss, pred, os, x, raw) ==
    FormatTriple(os[x], pred, Choice(ss, raw))
\* the subject is drawn too, as in the unique-object loop
UniqueSubjectEdgeAnySubject(ss, pred, os, x, raw) ==
    FormatTriple(Choice(ss, raw), pred, Choice(os, raw))
\* the loops nested the other way round: object-major
ManyToManyEdgeObjectMajor(ss, pred, os, x) ==
    FormatTriple(ss[((x - 1) % Len(ss)) + 1], pred,
                 os[((x - 1) \div Len(ss)) + 1])

\* what one iteration appends on a hit
UniqueObjectEdge(ss, pred, os, x, raw) ==
    FormatTriple(Choice(ss, raw), pred, os[x])
UniqueSubjectEdge(ss, pred, os, x, raw) ==
    FormatTriple(ss[x], pred, Choice(os, raw))
ManyToManyEdge(ss, pred, os, x) ==
    FormatTriple(PairSubject(ss, os, x), pred, PairObject(ss, os, x))

\* how many iterations the loop of a mode makes
LoopLength(mode, ss, os) ==
    CASE mode = "unique_object" -> Len(os)
      [] mode = "unique_subject" -> Len(ss)
      [] mode = "many_to_many" -> Len(ss) * Len(os)

Modes == {"unique_object", "unique_subject", "many_to_many"}
Finished == {"done", "returned", "raised"}

Outcome(what, graph) == [outcome |-> what, graph |-> graph]

\* generate_kg, lines 53-71: seed, read the schema and the catalog
GenStart ==
    /\ \/ gpc = "idle"
       \/ gpc \in Finished /\ seed # <<>> /\ Len(history) < MaxRuns
    /\ mt' = IF seed = <<>> THEN FreshEntropy ELSE RandomSeed(mt)
    /\ relations' = parse_schema(schema_file)
    /\ IF relations' = <<>> \/ ~instances_file.readable
       THEN /\ gpc' = "returned"
            /\ history' = Append(history, Outcome("returned", <<>>))
            /\ UNCHANGED <<instances_data, kg_data, rel>>
       ELSE /\ instances_data' = instances_file.obj
            /\ kg_data' = <<>>
            /\ rel' = 1
            /\ gpc' = "relation"
            /\ UNCHANGED history
    /\ UNCHANGED <<gen_inputs, subjs, objs, edge_list, iter, output_file>>
    /\ UNCHANGED norm_vars

\* lines 74-90, 102, 111: the presence check and the choice of the loop
GenRelation ==
    /\ gpc = "relation"
    /\ rel <= Len(relations)
    /\ IF ~DictHas(instances_data, CurRel[1])
          \/ ~DictHas(instances_data, CurRel[3])
       THEN /\ rel' = rel + 1
            /\ UNCHANGED <<gpc, subjs, objs, edge_list, iter>>
       ELSE /\ subjs' = DictGet(instances_data, CurRel[1])
            /\ objs' = DictGet(instances_data, CurRel[3])
            /\ edge_list' = <<>>
            /\ iter' = 0
            /\ gpc' = Mode(CurKey, UNIQUE_SUBJECT_RELATIONS)
            /\ UNCHANGED rel
    /\ UNCHANGED <<gen_inputs, mt, relations, instances_data, kg_data,
                   output_file, history>>
    /\ UNCHANGED norm_vars

\* random.choice of an empty sequence raises IndexError, which nothing
\* catches: the run ends without writing the output file
Raise(m) ==
    /\ gpc' = "raised"
    /\ mt' = m
    /\ history' = Append(history, Outcome("raised", <<>>))
    /\ UNCHANGED <<edge_list, iter>>

\* lines 93-100: one iteration of "for o in objs"
GenUniqueObject ==
    /\ gpc = "unique_object"
    /\ iter < LoopLength(gpc, subjs, objs)
    /\ \E raw \in NextRaw(mt) :
         LET m1 == Advance(mt, raw)
         IN  IF ~Hit(raw, probability)
             THEN /\ mt' = m1
                  /\ iter' = iter + 1
                  /\ UNCHANGED <<gpc, edge_list, history>>
             ELSE IF subjs = <<>>
             THEN Raise(m1)
             ELSE \E pick \in NextRaw(m1) :
                    /\ mt' = Advance(m1, pick)
                    /\ edge_list' = Append(edge_list,
                           UniqueObjectEdge(subjs, CurRel[2], objs,
                                            iter + 1, pick))
                    /\ iter' = iter + 1
                    /\ UNCHANGED <<gpc, history>>
    /\ UNCHANGED <<gen_inputs, relations, instances_data, kg_data, rel,
                   subjs, objs, output_file>>
    /\ UNCHANGED norm_vars

\* lines 105-109: one iteration of "for s in subjs"
GenUniqueSubject ==
    /\ gpc = "unique_subject"
    /\ iter < LoopLength(gpc, subjs, objs)
    /\ \E raw \in NextRaw(mt) :
         LET m1 == Advance(mt, raw)
         IN  IF ~Hit(raw, probability)
             THEN /\ mt' = m1
                  /\ iter' = iter + 1
                  /\ UNCHANGED <<gpc, edge_list, history>>
             ELSE IF objs = <<>>
             THEN Raise(m1)
             ELSE \E pick \in NextRaw(m1) :
                    /\ mt' = Advance(m1, pick)
                    /\ edge_list' = Append(edge_list,
                           UniqueSubjectEdge(subjs, CurRel[2], objs,
                                             iter + 1, pick))
                    /\ iter' = iter + 1
                    /\ UNCHANGED <<gpc, history>>
    /\ UNCHANGED <<gen_inputs, relations, instances_data, kg_data, rel,
                   subjs, objs, output_file>>
    /\ UNCHANGED norm_vars

\* lines 114-119: one iteration of "for s in subjs: for o in objs"
GenManyToMany ==
    /\ gpc = "many_to_many"
    /\ iter < LoopLength(gpc, subjs, objs)
    /\ \E raw \in NextRaw(mt) :
         /\ mt' = Advance(mt, raw)
         /\ edge_list' =
              IF Hit(raw, probability)
              THEN Append(edge_list,
                          ManyToManyEdge(subjs, CurRel[2], objs, iter + 1))
              ELSE edge_list
         /\ iter' = iter + 1
    /\ UNCHANGED <<gen_inputs, gpc, relations, instances_data, kg_data, rel,
                   subjs, objs, output_file, history>>
    /\ UNCHANGED norm_vars

\* line 121: the loop is over, the list is stored under the key
GenStore ==
    /\ gpc \in Modes
    /\ iter = LoopLength(gpc, subjs, objs)
    /\ kg_data' = DictSet(kg_data, CurKey, edge_list)
    /\ rel' = rel + 1
    /\ gpc' = "relation"
    /\ UNCHANGED <<gen_inputs, mt, relations, instances_data, subjs, objs,
                   edge_list, iter, output_file, history>>
    /\ UNCHANGED norm_vars

\* lines 123-130: every relation is done, the graph is written
GenWrite ==
    /\ gpc = "relation"
    /\ rel > Len(relations)
    /\ output_file' = [written |-> TRUE, obj |-> kg_data]
    /\ gpc' = "done"
    /\ history' = Append(history, Outcome("written", kg_data))
    /\ UNCHANGED <<gen_inputs, mt, gen_locals>>
    /\ UNCHANGED norm_vars

\* ---- inputs
SchemaFiles ==
    { <<"(City,companyLocation,Company)\n", "\f( Person ,bornIn , City )\n">>,
      <<"\n", "City,near,City\n", "(City,near,City)\n", "(a,b)\n">>,
      <<"(Person,worksAt,Company)\n", "(Person,worksAt,Company)">>,
      <<"(a,b)\n", "  \n">> }

Readable(obj) == [readable |-> TRUE, error |-> "", obj |-> obj]
\* a file that open() or json.load() fails on, with the exception raised
Failing(error) == [readable |-> FALSE, error |-> error, obj |-> <<>>]
Unreadable == Failing("FileNotFoundError")

InstancesFiles ==
    { Readable(<< <<"City", <<"nyc", "dallas">> >>,
                  <<"Company", <<"acme">> >>,
                  <<"Person", <<"alice", "bob">> >> >>),
      Readable(<< <<"City", <<"nyc", "dallas">> >>,
                  <<"Company", <<"acme", "initech">> >> >>),
      Readable(<< <<"City", <<>> >>,
                  <<"Company", <<"acme">> >>,
                  <<"Person", <<"alice">> >> >>),
      Readable(<< <<"Person", <<>> >>,
                  <<"City", <<"nyc">> >> >>),
      Readable(<< <<"City", <<"nyc", "nyc">> >>,
                  <<"Company", <<"acme", "acme">> >> >>),
      Unreadable, Failing("JSONDecodeError"), Failing("UnicodeDecodeError") }

\* the list as shipped (empty) and the example of generate_kg.py:14
UniqueSubjectConfigs == { {}, {"(Person,bornIn,City)"} }


-----------------------------------------------------------------------------
(* process_kg.py                                                           *)

\* parse_triple_string, lines 8-15
parse_triple_string(str) ==
    LET s1 == strip(str)
        s2 == IF startswith(s1, "(") /\ endswith(s1, ")")
              THEN SubSeq(s1, 2, Len(s1) - 1)
              ELSE s1
    IN  StripAll(split(s2, ","))

\* "if len(parts) < 3" in place of "!= 3": a fourth part goes unnoticed
WellFormedAtLeast(parts) == Len(parts) >= 3

\* lines 55 and 80: "if len(parts) != 3: ... continue", negated
WellFormed(parts) == Len(parts) = 3

\* two distinct strings with the same MD5 digest
CollidingA ==
    "TEXTCOLLBYfGiJUETHQ4hAcKSMd5zYpgqf1YRDhkmxHkhPWptrkoyz28wnI9V0aHeAuaKnak"
CollidingB ==
    "TEXTCOLLBYfGiJUETHQ4hEcKSMd5zYpgqf1YRDhkmxHkhPWptrkoyz28wnI9V0aHeAuaKnak"

\* hashlib.md5(item.encode('utf-8')).hexdigest(), tabulated for the labels
\* of the graphs below
md5_hexdigest(item) ==
    CASE item = "City" ->
             "57d056ed0984166336b7879c2af3657f"
      [] item = "Company" ->
             "1c76cbfe21c6f44c1d1e59d54f3e4420"
      [] item = "Person" ->
             "40bed7cf9b3d4bb3a3d7a7e3eb18c5eb"
      [] item = "State" ->
             "46a2a41cc6e552044816a2d04634545d"
      [] item = CollidingA ->
             "faad49866e9498fc1719f5289e7a0269"
      [] item = CollidingB ->
             "faad49866e9498fc1719f5289e7a0269"
      [] item = "Texas" ->
             "86871c416a7dbed7e5cc229d143d8d82"
      [] item = "Waco" ->
             "280536b63b2ee6abb0021970d60304b5"
      [] item = "acme" ->
             "53bce4f1dfa0fe8e7ca126f91b35d3a6"
      [] item = "alice" ->
             "6384e2b2184bcbf58eccf10ca7a6563c"
      [] item = "austin" ->
             "229979fce5174c17d4645bf8752dae1e"
      [] item = "bob" ->
             "9f9d51bc70ef21ca5c14f307980a29d8"
      [] item = "bornIn" ->
             "3e9ed7d69a6724a9abea6e478b833415"
      [] item = "boston" ->
             "6aecdfe8b004d1e8cb1e42c4414687a9"
      [] item = "carol" ->
             "a9a0198010a6073db96434f6cc5f22a8"
      [] item = "companyLocation" ->
             "3257249de475728fc37cfd5a2ca5621d"
      [] item = "dallas" ->
             "09f8316e29649a7f795f414ba3860fc0"
      [] item = "initech" ->
             "f703942bf7bebeea715af3ba442b7344"
      [] item = "knows" ->
             "6047cc85618dc1f4307e80ecfb65e5a6"
      [] item = "near" ->
             "85f06cc816f93b8a6dbb1a494f813358"
      [] item = "ny" ->
             "531beb50ffb32d08756e6462c037c8e1"
      [] item = "nyc" ->
             "c9417a7325cb10e8260e3582392e3846"
      [] item = "stateOf" ->
             "3be7258d9f23bbfb7bc860dfd5108e48"
      [] item = "twin" ->
             "f8a6d9182acfae3133fd1f1153f67707"

\* int(hexdigest, 16): a 128-bit integer, kept as its 32 base-16 digits
\* (most significant first)
md5_int(item) == md5_hexdigest(item)

\* get_id, lines 17-22: the mapping after the call, and the value returned
get_id_map(item, mapping) ==
    IF DictHas(mapping, item) THEN mapping
    ELSE DictSet(mapping, item, md5_int(item))
get_id(item, mapping) == DictGet(get_id_map(item, mapping), item)

\* lines 67-75: "if key not in index: index[key] = set()"
EnsureSet(index, key) ==
    IF DictHas(index, key) THEN index ELSE DictSet(index, key, {})
\* index[key].add(x)
AddTo(index, key, x) == DictSet(index, key, DictGet(index, key) \cup {x})

\* ---- sorted(): the order of Python ints and of Python strings
CodePoints ==
    "\t\n\f\r (),0123456789ABCDEFGHIJKLMNOPQRSTUVWXYZ"
    \o "abcdefghijklmnopqrstuvwxyz "
\* the rank of a character among those of CodePoints, which are listed by
\* ascending code point
Rank(c) == CHOOSE x \in 1..Len(CodePoints) : Char(CodePoints, x) = c

\* a < b for strings: by code point at the first difference, a proper
\* prefix first
StrLess(a, b) ==
    LET both == IF Len(a) < Len(b) THEN Len(a) ELSE Len(b)
        diff == {x \in 1..both : Char(a, x) # Char(b, x)}
    IN  IF diff = {} THEN Len(a) < Len(b)
        ELSE LET first == CHOOSE x \in diff : \A y \in diff : x <= y
             IN  Rank(Char(a, first)) < Rank(Char(b, first))

\* a < b for the integers: both have 32 digits, and the digits 0-9a-f
\* rank by value
IntLess(a, b) == StrLess(a, b)

Less(kind, a, b) == IF kind = "int" THEN IntLess(a, b) ELSE StrLess(a, b)

\* sorted(list(v)): list(v) gives the elements in some order, and each is
\* put in its place among those already sorted
RECURSIVE InsertAll(_, _, _)
InsertAll(kind, done, rest) ==
    IF rest = {} THEN done
    ELSE LET x == CHOOSE y \in rest : TRUE
             before == SelectSeq(done, LAMBDA y : ~Less(kind, x, y))
             after == SelectSeq(done, LAMBDA y : Less(kind, x, y))
         IN  InsertAll(kind, before \o <<x>> \o after, rest \ {x})

\* sorted(..., reverse=True)
sortedDescending(kind, v) ==
    LET up == InsertAll(kind, <<>>, v)
    IN  [x \in 1..Len(up) |-> up[Len(up) + 1 - x]]

sorted(kind, v) == InsertAll(kind, <<>>, v)

\* {k: sorted(list(v)) for k, v in index.items()}
SortedValues(kind, index) ==
    [x \in 1..Len(index) |-> <<index[x][1], sorted(kind, index[x][2])>>]

\* ---- the entry and the edge at hand
CurEntryKey == data[entry][1]
CurEdges == data[entry][2]
KeyParts == parse_triple_string(CurEntryKey)

\* line 95 records the object label under the subject type
EdgeEffectWrongLabel(kp, ip, imap, ntmap, nti, ntil) ==
    LET subj_type_id == get_id(kp[1], ntmap)
        obj_type_id == get_id(kp[3], ntmap)
        imap1 == get_id_map(ip[1], imap)
        subj_inst_id == get_id(ip[1], imap)
        imap2 == get_id_map(ip[3], imap1)
        obj_inst_id == get_id(ip[3], imap1)
        nti1 == AddTo(nti, subj_type_id, subj_inst_id)
        ntil1 == AddTo(ntil, kp[1], ip[3])
    IN  [instance_map |-> imap2,
         node_type_instances |-> AddTo(nti1, obj_type_id, obj_inst_id),
         node_type_instances_labels |-> AddTo(ntil1, kp[3], ip[3])]
\* lines 97-101 are missing: the object is not recorded under its type
EdgeEffectSubjectOnly(kp, ip, imap, ntmap, nti, ntil) ==
    LET subj_type_id == get_id(kp[1], ntmap)
        imap1 == get_id_map(ip[1], imap)
        subj_inst_id == get_id(ip[1], imap)
        imap2 == get_id_map(ip[3], imap1)
    IN  [instance_map |-> imap2,
         node_type_instances |-> AddTo(nti, subj_type_id, subj_inst_id),
         node_type_instances_labels |-> AddTo(ntil, kp[1], ip[1])]

\* lines 87-101: the tables after one well-formed edge of an entry whose
\* key has the parts kp
EdgeEffect(kp, ip, imap, ntmap, nti, ntil) ==
    LET subj_type_id == get_id(kp[1], ntmap)
        obj_type_id == get_id(kp[3], ntmap)
        imap1 == get_id_map(ip[1], imap)
        subj_inst_id == get_id(ip[1], imap)
        imap2 == get_id_map(ip[3], imap1)
        obj_inst_id == get_id(ip[3], imap1)
        nti1 == AddTo(nti, subj_type_id, subj_inst_id)
        ntil1 == AddTo(ntil, kp[1], ip[1])
    IN  [instance_map |-> imap2,
         node_type_instances |-> AddTo(nti1, obj_type_id, obj_inst_id),
         node_type_instances_labels |-> AddTo(ntil1, kp[3], ip[3])]

\* the failures of reading the graph that main returns on: the path does
\* not exist (line 31), the text is not JSON (line 38)
Returning == {"FileNotFoundError", "JSONDecodeError"}

\* main, lines 24-50: read the graph, empty tables
NormStart ==
    /\ npc = "start"
    /\ IF input_file.readable
       THEN /\ data' = input_file.obj
            /\ npc' = "key"
            /\ entry' = 1
       ELSE \* lines 31-33: no file, and lines 38-40: json.JSONDecodeError,
            \* return; any other exception of lines 36-37 leaves main
            /\ npc' = IF input_file.error \in Returning
                       THEN "returned" ELSE "raised"
            /\ UNCHANGED <<data, entry>>
    /\ node_type_map' = <<>>
    /\ edge_type_map' = <<>>
    /\ instance_map' = <<>>
    /\ node_type_instances' = <<>>
    /\ node_type_instances_labels' = <<>>
    /\ UNCHANGED <<input_file, scanned, final_node_instances,
                   final_node_instances_labels>>
    /\ UNCHANGED gen_vars

\* lines 52-75: the key of the next entry
NormKey ==
    /\ npc = "key"
    /\ entry <= Len(data)
    /\ IF ~WellFormed(KeyParts)
       THEN /\ entry' = entry + 1
            /\ UNCHANGED <<npc, norm_tables, scanned>>
       ELSE LET ntm1 == get_id_map(KeyParts[1], node_type_map)
                subj_type_id == get_id(KeyParts[1], node_type_map)
                ntm2 == get_id_map(KeyParts[3], ntm1)
                obj_type_id == get_id(KeyParts[3], ntm1)
            IN  /\ node_type_map' = ntm2
                /\ edge_type_map' = get_id_map(KeyParts[2], edge_type_map)
                /\ node_type_instances' =
                     EnsureSet(EnsureSet(node_type_instances, subj_type_id),
                               obj_type_id)
                /\ node_type_instances_labels' =
                     EnsureSet(EnsureSet(node_type_instances_labels,
                                         KeyParts[1]),
                               KeyParts[3])
                /\ scanned' = 0
                /\ npc' = "edges"
                /\ UNCHANGED <<instance_map, entry>>
    /\ UNCHANGED <<input_file, data, final_node_instances,
                   final_node_instances_labels>>
    /\ UNCHANGED gen_vars

\* lines 77-101: the next edge of the entry
NormEdge ==
    /\ npc = "edges"
    /\ scanned < Len(CurEdges)
    /\ LET inst_parts == parse_triple_string(CurEdges[scanned + 1])
       IN  IF ~WellFormed(inst_parts)
           THEN UNCHANGED <<instance_map, node_type_instances,
                            node_type_instances_labels>>
           ELSE LET after == EdgeEffect(KeyParts, inst_parts, instance_map,
                                        node_type_map, node_type_instances,
                                        node_type_instances_labels)
                IN  /\ instance_map' = after.instance_map
                    /\ node_type_instances' = after.node_type_instances
                    /\ node_type_instances_labels' =
                         after.node_type_instances_labels
    /\ scanned' = scanned + 1
    /\ UNCHANGED <<input_file, data, npc, node_type_map, edge_type_map,
                   entry, final_node_instances, final_node_instances_labels>>
    /\ UNCHANGED gen_vars

\* line 77: the edge list is exhausted, on to the next entry
NormNextEntry ==
    /\ npc = "edges"
    /\ scanned = Len(CurEdges)
    /\ entry' = entry + 1
    /\ npc' = "key"
    /\ UNCHANGED <<input_file, data, norm_tables, scanned,
                   final_node_instances, final_node_instances_labels>>
    /\ UNCHANGED gen_vars

\* lines 103-141: the sets are sorted and the five files written
NormFinalize ==
    /\ npc = "key"
    /\ entry > Len(data)
    /\ final_node_instances' = SortedValues("int", node_type_instances)
    /\ final_node_instances_labels' =
         SortedValues("str", node_type_instances_labels)
    /\ npc' = "done"
    /\ UNCHANGED <<input_file, data, norm_tables, entry, scanned>>
    /\ UNCHANGED gen_vars

\* ---- inputs
GraphExample ==
    <<
       <<"(City,companyLocation,Company)",
          <<"(nyc,companyLocation,acme)">> >> >>

GraphMixed ==
    <<
       <<"(City,companyLocation,Company)",
          <<"(nyc,companyLocation,acme)",
            "\f( Waco ,companyLocation , acme)",
            "(dallas,companyLocation)",
            "ny,companyLocation,initech">> >>,
       <<"(Person,bornIn,City)",
          <<"(alice,bornIn,nyc)",
            "(alice,bornIn,nyc)",
            "(bob,bornIn,Waco,Texas)">> >>,
       <<"(Person,knows)",
          <<"(alice,knows,carol)">> >>,
       <<" State , stateOf ,\fCity",
          <<>> >> >>

GraphCollidingTypes ==
    <<
       <<"(" \o CollidingA \o ",twin,City)",
          <<"(austin,twin,nyc)">> >>,
       <<"(" \o CollidingB \o ",twin,City)",
          <<"(boston,twin,dallas)">> >> >>

GraphCollidingInstances ==
    <<
       <<"(City,near,City)",
          <<"(" \o CollidingA \o ",near," \o CollidingB \o ")",
            "(nyc,near,dallas)",
            "(dallas,near,nyc)">> >> >>

Graphs ==
    {GraphExample, GraphMixed, GraphCollidingTypes, GraphCollidingInstances}

\* a sequence in the order a permutation of its indices gives
Reorder(seq, f) == [x \in 1..Len(seq) |-> seq[f[x]]]
Orders(seq) == {Reorder(seq, f) : f \in Permutations(1..Len(seq))}

\* every order of the entries of a graph
EntryOrders(g) == Orders(g)
\* every order of the edges, in each entry of a graph
RECURSIVE EdgeOrders(_)
EdgeOrders(g) ==
    IF g = <<>> THEN {<<>>}
    ELSE {<< <<Head(g)[1], l>> >> \o rest :
             l \in Orders(Head(g)[2]), rest \in EdgeOrders(Tail(g))}

\* a missing file, a file that is not JSON, a file that is not UTF-8 text
GraphFailures == {"FileNotFoundError", "JSONDecodeError", "UnicodeDecodeError"}

GraphFiles ==
    {Readable(h) : h \in UNION {UNION {EdgeOrders(o) : o \in EntryOrders(g)}
                                : g \in Graphs}}
    \cup {Failing(error) : error \in GraphFailures}

NormIdle ==
    /\ input_file = Unreadable
    /\ data = <<>>
    /\ npc = "off"
    /\ node_type_map = <<>>
    /\ edge_type_map = <<>>
    /\ instance_map = <<>>
    /\ node_type_instances = <<>>
    /\ node_type_instances_labels = <<>>
    /\ entry = 0
    /\ scanned = 0
    /\ final_node_instances = <<>>
    /\ final_node_instances_labels = <<>>

GenIdle ==
    /\ mt = FreshEntropy
    /\ gpc = "idle"
    /\ relations = <<>>
    /\ instances_data = <<>>
    /\ kg_data = <<>>
    /\ rel = 0
    /\ subjs = <<>>
    /\ objs = <<>>
    /\ edge_list = <<>>
    /\ iter = 0
    /\ output_file = [written |-> FALSE, obj |-> <<>>]
    /\ history = <<>>

Init ==
    /\ schema_file \in SchemaFiles
    /\ instances_file \in InstancesFiles
    /\ probability \in 0..Resolution
    /\ seed \in {<<>>, <<SEED>>}
    /\ UNIQUE_SUBJECT_RELATIONS \in UniqueSubjectConfigs
    /\ GenIdle
    /\ NormIdle

Next ==
    \/ GenStart
    \/ GenRelation
    \/ GenUniqueObject
    \/ GenUniqueSubject
    \/ GenManyToMany
    \/ GenStore
    \/ GenWrite

Spec == Init /\ [][Next]_vars


InitNorm ==
    /\ input_file \in GraphFiles
    /\ data = <<>>
    /\ npc = "start"
    /\ node_type_map = <<>>
    /\ edge_type_map = <<>>
    /\ instance_map = <<>>
    /\ node_type_instances = <<>>
    /\ node_type_instances_labels = <<>>
    /\ entry = 0
    /\ scanned = 0
    /\ final_node_instances = <<>>
    /\ final_node_instances_labels = <<>>
    /\ schema_file = <<>>
    /\ instances_file = Unreadable
    /\ probability = 0
    /\ seed = <<>>
    /\ UNIQUE_SUBJECT_RELATIONS = {}
    /\ GenIdle

NextNorm ==
    \/ NormStart
    \/ NormKey
    \/ NormEdge
    \/ NormNextEntry
    \/ NormFinalize

SpecNorm == InitNorm /\ [][NextNorm]_vars


-----------------------------------------------------------------------------
(* Properties of the generator, checked under Spec                         *)

Distinct(seq) == \A x, y \in 1..Len(seq) : seq[x] = seq[y] => x = y

\* the components of an edge string, as the normalizer reads them back
SubjectOf(edge) == parse_triple_string(edge)[1]
ObjectOf(edge) == parse_triple_string(edge)[3]

\* the schema relations a stored key stands for
RelationsOf(key) == {r \in Range(relations) : Key(r) = key}
\* the relations that pass the presence check of lines 76-81
Present(r) == DictHas(instances_data, r[1]) /\ DictHas(instances_data, r[3])

\* how many edges of a list have the label as their object (subject)
EdgesWithObject(list, o) ==
    Cardinality({y \in 1..Len(list) : ObjectOf(list[y]) = o})
EdgesWithSubject(list, s) ==
    Cardinality({y \in 1..Len(list) : SubjectOf(list[y]) = s})

\* C1: the edge list stored under a key of UNIQUE_OBJECT_RELATIONS has at
\* most len(objs) edges, and when the object labels of the catalog are
\* distinct each of them is the object of at most one edge of the list.
C1_UniqueObject ==
    \A x \in 1..Len(kg_data) :
        kg_data[x][1] \in UNIQUE_OBJECT_RELATIONS =>
            \A r \in RelationsOf(kg_data[x][1]) :
                LET os == DictGet(instances_data, r[3])
                    list == kg_data[x][2]
                IN  /\ Len(list) <= Len(os)
                    /\ Distinct(os) =>
                         \A o \in Range(os) : EdgesWithObject(list, o) <= 1

\* a finished run stored two edges, one for each of two distinct objects,
\* under a unique-object key
C1_Witness ==
    /\ gpc = "done"
    /\ \E x \in 1..Len(kg_data) :
         /\ kg_data[x][1] \in UNIQUE_OBJECT_RELATIONS
         /\ Len(kg_data[x][2]) = 2
         /\ ObjectOf(kg_data[x][2][1]) # ObjectOf(kg_data[x][2][2])

\* C2: the edge list stored under a key of UNIQUE_SUBJECT_RELATIONS has at
\* most len(subjs) edges, and when the subject labels of the catalog are
\* distinct each of them is the subject of at most one edge of the list.
C2_UniqueSubject ==
    \A x \in 1..Len(kg_data) :
        kg_data[x][1] \in UNIQUE_SUBJECT_RELATIONS =>
            \A r \in RelationsOf(kg_data[x][1]) :
                LET ss == DictGet(instances_data, r[1])
                    list == kg_data[x][2]
                IN  /\ Len(list) <= Len(ss)
                    /\ Distinct(ss) =>
                         \A sl \in Range(ss) : EdgesWithSubject(list, sl) <= 1

\* a finished run stored two edges, one for each of two distinct subjects,
\* under a unique-subject key
C2_Witness ==
    /\ gpc = "done"
    /\ \E x \in 1..Len(kg_data) :
         /\ kg_data[x][1] \in UNIQUE_SUBJECT_RELATIONS
         /\ Len(kg_data[x][2]) = 2
         /\ SubjectOf(kg_data[x][2][1]) # SubjectOf(kg_data[x][2][2])

\* C3: with p = 1, the list stored for a relation of neither constraint list
\* has len(subjs) * len(objs) edges, the edge of the a-th subject and the
\* b-th object at place (a - 1) * len(objs) + b: every pair once, subject-major.
C3_FullProduct ==
    probability = Resolution =>
        \A x \in 1..Len(kg_data) :
            (/\ kg_data[x][1] \notin UNIQUE_OBJECT_RELATIONS
             /\ kg_data[x][1] \notin UNIQUE_SUBJECT_RELATIONS) =>
                \A r \in RelationsOf(kg_data[x][1]) :
                    LET ss == DictGet(instances_data, r[1])
                        os == DictGet(instances_data, r[3])
                        list == kg_data[x][2]
                    IN  /\ Len(list) = Len(ss) * Len(os)
                        /\ \A a \in 1..Len(ss) : \A b \in 1..Len(os) :
                             list[(a - 1) * Len(os) + b] =
                                 FormatTriple(ss[a], r[2], os[b])

\* a finished run with p = 1 stored the four edges of two subjects and two
\* objects under a many-to-many key
C3_Witness ==
    /\ gpc = "done"
    /\ probability = Resolution
    /\ \E x \in 1..Len(kg_data) :
         /\ kg_data[x][1] \notin UNIQUE_OBJECT_RELATIONS
         /\ kg_data[x][1] \notin UNIQUE_SUBJECT_RELATIONS
         /\ Len(kg_data[x][2]) = 4
         /\ \E r \in RelationsOf(kg_data[x][1]) :
              Len(DictGet(instances_data, r[1])) = 2

\* C4: for a non-empty schema and a readable catalog the run completes (it
\* never raises), and the written graph has the key of a relation exactly
\* when both types of the relation are in the catalog.
C4_CompletesWithPresentKeys ==
    /\ gpc # "raised"
    /\ gpc = "done" =>
         DictKeys(output_file.obj) =
             {Key(r) : r \in {q \in Range(relations) : Present(q)}}

\* C5: all runs on the same inputs with the same non-null seed end alike:
\* the same outcome and the same graph, keys and edges in the same order.
C5_SameSeedSameGraph ==
    seed # <<>> =>
        \A a, b \in 1..Len(history) : history[a] = history[b]

\* two runs with the same seed and 0 < p < 1 both wrote a graph with an edge
C5_Witness ==
    /\ seed # <<>>
    /\ 0 < probability /\ probability < Resolution
    /\ Len(history) = 2
    /\ history[2].outcome = "written"
    /\ \E x \in 1..Len(history[2].graph) : history[2].graph[x][2] # <<>>

\* C6: every edge stored under the key of a relation (S, pred, O) is the
\* string "(s,pred,o)" of a label s of the catalog entry of S, the predicate
\* of the relation and a label o of the catalog entry of O.
C6_EdgesFromCatalog ==
    \A x \in 1..Len(kg_data) :
        \A r \in RelationsOf(kg_data[x][1]) :
            \A y \in 1..Len(kg_data[x][2]) :
                \E sl \in Range(DictGet(instances_data, r[1])) :
                    \E ol \in Range(DictGet(instances_data, r[3])) :
                        kg_data[x][2][y] = FormatTriple(sl, r[2], ol)

\* a finished run stored edges under a unique-object key and under a
\* unique-subject key
C6_Witness ==
    /\ gpc = "done"
    /\ \E x, y \in 1..Len(kg_data) :
         /\ kg_data[x][1] \in UNIQUE_OBJECT_RELATIONS
         /\ kg_data[y][1] \in UNIQUE_SUBJECT_RELATIONS
         /\ kg_data[x][2] # <<>>
         /\ kg_data[y][2] # <<>>


-----------------------------------------------------------------------------
(* Properties of the normalizer, checked under SpecNorm                    *)

\* a string that parses into exactly 3 parts
ThreeParts(str) == Len(parse_triple_string(str)) = 3

\* the keys of the graph, parsed
ParsedKeys == {parse_triple_string(data[x][1]) : x \in 1..Len(data)}
\* the edges of the graph, parsed, each with its parsed key
ParsedEdges ==
    UNION {{<<parse_triple_string(data[x][1]),
              parse_triple_string(data[x][2][y])>> : y \in 1..Len(data[x][2])}
           : x \in 1..Len(data)}

\* every label a key or an edge of the graph can give
Universe(keys, edges) ==
    UNION {Range(kp) : kp \in keys} \cup UNION {Range(pe[2]) : pe \in edges}

\* the label occurs as the subject of a well-formed edge under a well-formed
\* key of subject type T, or as the object of one under a key of object type T
Occurs(edges, T, label) ==
    \E pe \in edges :
        /\ Len(pe[1]) = 3
        /\ Len(pe[2]) = 3
        /\ \/ pe[1][1] = T /\ pe[2][1] = label
           \/ pe[1][3] = T /\ pe[2][3] = label
OccurLabels(edges, T) ==
    {label \in UNION {Range(pe[2]) : pe \in edges} : Occurs(edges, T, label)}

\* the node types the well-formed keys name
NamedTypes(keys) ==
    UNION {{kp[1], kp[3]} : kp \in {q \in keys : Len(q) = 3}}

\* the index entries, empty where there is none
LabelSet(T) ==
    IF DictHas(node_type_instances_labels, T)
    THEN DictGet(node_type_instances_labels, T) ELSE {}
IdSet(tid) ==
    IF DictHas(node_type_instances, tid)
    THEN DictGet(node_type_instances, tid) ELSE {}
FinalLabels(T) ==
    IF DictHas(final_node_instances_labels, T)
    THEN DictGet(final_node_instances_labels, T) ELSE <<>>
FinalIds(tid) ==
    IF DictHas(final_node_instances, tid)
    THEN DictGet(final_node_instances, tid) ELSE <<>>

TypeLabels == DictKeys(node_type_map)
TypeId(T) == DictGet(node_type_map, T)
\* the type labels that share the ID of T
SameId(T) == {T2 \in TypeLabels : TypeId(T2) = TypeId(T)}
\* no two labels met so far hash alike
NoCollision ==
    /\ \A a, b \in TypeLabels : md5_int(a) = md5_int(b) => a = b
    /\ \A a, b \in DictKeys(instance_map) : md5_int(a) = md5_int(b) => a = b

\* C7 as stated: at every point of the scan and in the finalized output,
\* every ID in the ID-keyed entry of the ID of a type label T is get_id of a
\* label in the label-keyed entry of T.
C7_IdsFromOwnLabels ==
    \A T \in TypeLabels :
        /\ \A id \in IdSet(TypeId(T)) :
             \E label \in LabelSet(T) : get_id(label, instance_map) = id
        /\ \A id \in Range(FinalIds(TypeId(T))) :
             \E label \in Range(FinalLabels(T)) :
                 get_id(label, instance_map) = id

\* C7 amended: at every point of the scan and in the finalized output, every
\* ID in the ID-keyed entry of the ID of a type label T is get_id of a label
\* in the label-keyed entry of a type label with the same ID as T; and when
\* no two labels hash alike the ID entry is exactly the set of the hashes of
\* the label entry of T.
C7_IdsFromLabelsOfSameId ==
    \A T \in TypeLabels :
        /\ \A id \in IdSet(TypeId(T)) :
             \E T2 \in SameId(T) : \E label \in LabelSet(T2) :
                 get_id(label, instance_map) = id
        /\ \A id \in Range(FinalIds(TypeId(T))) :
             \E T2 \in SameId(T) : \E label \in Range(FinalLabels(T2)) :
                 get_id(label, instance_map) = id
        /\ NoCollision =>
             IdSet(TypeId(T)) =
                 {get_id(label, instance_map) : label \in LabelSet(T)}

\* the scan is over, two type labels share an ID, and the entry of that ID
\* holds the instances of both
C7_Witness ==
    /\ npc = "done"
    /\ \E T \in TypeLabels :
         /\ \E T2 \in SameId(T) : T2 # T /\ LabelSet(T2) # {}
         /\ LabelSet(T) # {}
         /\ Cardinality(IdSet(TypeId(T))) = 2

\* C8: after normalization, a label is in the label-keyed entry of T, and
\* its ID in the ID-keyed entry of the ID of T, exactly when it occurs under
\* T in a well-formed edge of a well-formed key; the types that have an entry
\* are those the well-formed keys name, with an empty entry when no label
\* occurs under them.
C8_EntriesAreOccurrences ==
    npc = "done" =>
        LET keys == ParsedKeys
            edges == ParsedEdges
            labels == Universe(keys, edges)
            named == NamedTypes(keys)
        IN  /\ DictKeys(final_node_instances_labels) = named
            /\ \A T \in named \cup TypeLabels :
                 /\ \A label \in labels \cup Range(FinalLabels(T)) :
                      (/\ label \in Range(FinalLabels(T))
                       /\ DictHas(node_type_map, T)
                       /\ DictHas(instance_map, label)
                       /\ DictGet(instance_map, label)
                              \in Range(FinalIds(TypeId(T))))
                      <=> Occurs(edges, T, label)
                 /\ OccurLabels(edges, T) = {} => FinalLabels(T) = <<>>

\* a normalized graph: a type with an empty entry, a label read from an edge
\* with blanks in its entry, and the label under a malformed key in none
C8_Witness ==
    /\ npc = "done"
    /\ DictHas(final_node_instances_labels, "State")
    /\ FinalLabels("State") = <<>>
    /\ "Waco" \in Range(FinalLabels("City"))
    /\ "carol" \in Universe(ParsedKeys, ParsedEdges)
    /\ "carol" \notin Range(FinalLabels("Person"))

\* the step of the scan that meets a malformed key (edge)
AtMalformedKey ==
    npc = "key" /\ entry <= Len(data) /\ ~ThreeParts(CurEntryKey)
AtMalformedEdge ==
    /\ npc = "edges"
    /\ scanned < Len(CurEdges)
    /\ ~ThreeParts(CurEdges[scanned + 1])

\* a step of the scan is due: the guard of NormKey, NormFinalize, NormEdge
\* or NormNextEntry holds
StepDue ==
    \/ npc = "key" /\ entry \in 1..Len(data)
    \/ npc = "key" /\ entry = Len(data) + 1
    \/ npc = "edges" /\ entry \in 1..Len(data) /\ scanned < Len(CurEdges)
    \/ npc = "edges" /\ entry \in 1..Len(data) /\ scanned = Len(CurEdges)

\* what a step of the scan does to the tables and to the position
SkipsAndAdvances ==
    /\ AtMalformedKey =>
         /\ UNCHANGED norm_tables
         /\ npc' = "key"
         /\ entry' = entry + 1
    /\ AtMalformedEdge =>
         /\ UNCHANGED norm_tables
         /\ npc' = "edges"
         /\ entry' = entry
         /\ scanned' = scanned + 1
    /\ npc \in {"key", "edges"} =>
         \/ entry' = entry + 1 /\ npc' = "key"
         \/ entry' = entry /\ npc = "key" /\ npc' \in {"edges", "done"}
         \/ entry' = entry /\ npc' = "edges" /\ scanned' = scanned + 1

\* C9: the step at a malformed key leaves the five tables unchanged and goes
\* to the next key without scanning an edge; the step at a malformed edge
\* leaves them unchanged and goes to the next edge; every step of the scan
\* moves forward by one key or one edge, a step is due until the output
\* phase, and the output phase is entered past the last entry.
C9_MalformedSkipped ==
    /\ [][SkipsAndAdvances]_vars
    /\ [](npc \in {"key", "edges"} => StepDue)
    /\ [](npc = "done" => entry = Len(data) + 1)

\* the output phase is reached after a malformed first key and a malformed
\* edge, with the instances of a later entry in the tables
C9_Witness ==
    /\ npc = "done"
    /\ Len(data) >= 2
    /\ ~ThreeParts(data[1][1])
    /\ \E y \in 1..Len(data[2][2]) : ~ThreeParts(data[2][2][y])
    /\ DictHas(instance_map, "alice")
    /\ ~DictHas(instance_map, "carol")

StrictlyAscending(kind, seq) ==
    \A x \in 1..(Len(seq) - 1) : Less(kind, seq[x], seq[x + 1])

\* C10: every finalized entry is free of duplicates and strictly ascending,
\* IDs by value and labels by code point, and holds exactly the instances
\* that occur under its type, whatever the order of the entries and edges.
C10_SortedEntries ==
    npc = "done" =>
        LET edges == ParsedEdges
            named == NamedTypes(ParsedKeys)
        IN  /\ \A x \in 1..Len(final_node_instances_labels) :
                 LET T == final_node_instances_labels[x][1]
                     list == final_node_instances_labels[x][2]
                 IN  /\ Distinct(list)
                     /\ StrictlyAscending("str", list)
                     /\ Range(list) = OccurLabels(edges, T)
            /\ \A x \in 1..Len(final_node_instances) :
                 LET tid == final_node_instances[x][1]
                     list == final_node_instances[x][2]
                 IN  /\ Distinct(list)
                     /\ StrictlyAscending("int", list)
                     /\ Range(list) =
                          {md5_int(label) :
                             label \in UNION {OccurLabels(edges, T) :
                                T \in {T2 \in named : md5_int(T2) = tid}}}

\* a finalized entry of three labels that were met out of order, one of them
\* in several edges
C10_Witness ==
    /\ npc = "done"
    /\ FinalLabels("City") = <<"Waco", "ny", "nyc">>
    /\ data[1][1] = "(Person,bornIn,City)"
    /\ Len(FinalIds(md5_int("City"))) = 3

=============================================================================
